---- MODULE Spec2Model ----
(***************************************************************************)
(* A model of two routines of inspect_ai:                                  *)
(*   - the event correlator of `inspect trace anomalies`                   *)
(*     (src/inspect_ai/_cli/trace.py, anomolies_command and _print_bucket) *)
(*   - the generation / tool-execution loop                                *)
(*     (src/inspect_ai/_eval/task/generate.py, task_generate)              *)
(* Spec is the correlator, GenSpec is the generation loop.                 *)
(***************************************************************************)
EXTENDS Integers, Sequences, FiniteSets, TLC

VARIABLES
    \* ---- anomolies_command ----
    all,                \* the --all flag
    running_actions,    \* dict trace_id -> record, in insertion order
    canceled_actions,
    error_actions,
    timeout_actions,
    start_trace,        \* <<>> (None) or <<record>>
    trace,              \* the loop variable: <<>> before the loop, else <<record>>
    n,                  \* records taken from the (filtered) stream so far
    pc,                 \* "loop" | "raised" | "done"
    stdout,             \* the lines printed, in order
    tables,             \* the rendered buckets, in order
    last,               \* history: trace_id -> its last lifecycle event ("none" at first)
    reentered,          \* history: trace_ids entered again after a terminal event
    enters,             \* history: trace_id -> enter events since its last terminal event
                        \*          (kept until the next enter after a terminal event);
                        \*          <<>> in the runs that do not count them
    \* ---- _read_traces ----
    raw,                \* the records of the trace file, in file order
    filter,             \* the --filter option: <<>> (None) or <<text>>
    traces,             \* the list _read_traces returns
    \* ---- task_generate ----
    tool_calls,         \* "loop" | "single" | "none"
    tool_choice,        \* the local tool_choice
    state_tool_choice,  \* state.tool_choice
    state_epoch,        \* state.epoch
    epoch,              \* the epoch context variable (0: not set)
    messages,           \* state.messages
    completed,          \* state.completed as the next read will see it
    state_output,       \* state.output: "none" | "model" | "tools"
    gpc,                \* position of task_generate
    raised,             \* the failure that reached the caller ("" for none)
    log                 \* history: the calls made and their outcomes, in order

traceVars == <<all, running_actions, canceled_actions, error_actions, timeout_actions,
               start_trace, trace, n, pc, stdout, tables, last, reentered, enters>>
genVars == <<tool_calls, tool_choice, state_tool_choice, state_epoch, epoch, messages,
             completed, state_output, gpc, raised, log>>
readVars == <<raw, filter, traces>>
vars == <<traceVars, genVars, readVars>>

(***************************************************************************)
(* Bounds                                                                  *)
(***************************************************************************)
MaxEvents == 4      \* records in the stream
NumIds == 2         \* distinct trace_ids
MaxTime == 1        \* start_time ranges over None, 1..MaxTime
MaxDur == 1         \* duration ranges over None, 1..MaxDur
MaxGenerations == 3 \* calls of model.generate in one task_generate
MaxToolCalls == 1   \* tool calls requested by one response
MaxToolMessages == 1 \* messages returned by one execute_tools
MaxEpoch == 2       \* epochs of a task
MaxRaw == 2         \* records in a trace file read with --filter

TraceIds == 1..NumIds
None == <<>>
Some(x) == <<x>>
StartTimes == {None} \cup {Some(t) : t \in 1..MaxTime}
Durations == {None} \cup {Some(d) : d \in 1..MaxDur}
\* start times of the streams used to check the rendering alone, and the readings of
\* time.time() when the tables are rendered
WideStartTimes == {None} \cup {Some(t) : t \in 1..(MaxTime + 1)}
Clock == (MaxTime + 1)..(MaxTime + 2)
TerminalEvents == {"exit", "cancel", "error", "timeout"}
KnownEvents == {"enter"} \cup TerminalEvents

\* python's `x or 0` for an optional number
OrZero(x) == IF x = None THEN 0 ELSE x[1]

(***************************************************************************)
(* A python dict: a sequence of [k, v] entries in insertion order.         *)
(***************************************************************************)
DictKeys(d) == {d[i].k : i \in DOMAIN d}
DictHas(d, k) == k \in DictKeys(d)
DictIndex(d, k) == CHOOSE i \in DOMAIN d : d[i].k = k
DictGet(d, k) == d[DictIndex(d, k)].v
DictSet(d, k, v) ==
    IF DictHas(d, k)
    THEN [i \in DOMAIN d |-> IF d[i].k = k THEN [k |-> k, v |-> v] ELSE d[i]]
    ELSE Append(d, [k |-> k, v |-> v])
DictDel(d, k) == SelectSeq(d, LAMBDA e : e.k # k)
DictValues(d) == [i \in DOMAIN d |-> d[i].v]

(***************************************************************************)
(* Trace records.  idx is the record's position in the stream.             *)
(***************************************************************************)
ActionTraceRecord(i, ev, id, st, du) ==
    [action |-> TRUE, event |-> ev, trace_id |-> id, start_time |-> st,
     duration |-> du, idx |-> i]
TraceRecord(i) ==
    [action |-> FALSE, event |-> "", trace_id |-> 0, start_time |-> None,
     duration |-> None, idx |-> i]

(***************************************************************************)
(* anomolies_command: the nested helpers                                   *)
(***************************************************************************)
\* a variant that keeps the first enter record of a trace_id (setdefault)
action_started_first_wins(run, t) == IF DictHas(run, t.trace_id) THEN run ELSE DictSet(run, t.trace_id, t)

\* action_started: running_actions[trace.trace_id] = trace
action_started(run, t) == DictSet(run, t.trace_id, t)

\* action_completed: `start_trace = running_actions.get(trace.trace_id)`
running_get(run, t) == IF DictHas(run, t.trace_id) THEN Some(DictGet(run, t.trace_id)) ELSE None

\* action_completed: `if start_trace:` (a record object is always truthy)
start_found(st) == st # None

\* a variant that forgets the `del`
action_completed_keep(run, t) == run

\* action_completed: `del running_actions[trace.trace_id]`
action_completed(run, t) == DictDel(run, t.trace_id)

\* a variant that leaves the terminal record as it was read
copy_start_time_skipped(t, st) == t

\* the loop body: `trace.start_time = start_trace.start_time`
copy_start_time(t, st) == [t EXCEPT !.start_time = st.start_time]

\* a variant that ignores --all
action_failed_always(err, flag, st, t) == DictSet(err, st.trace_id, t)

\* action_failed: insert only under --all
action_failed(err, flag, st, t) == IF flag THEN DictSet(err, st.trace_id, t) ELSE err

\* action_canceled: insert always
action_canceled(can, st, t) == DictSet(can, st.trace_id, t)

\* action_timeout: insert only under --all
action_timeout(tmo, flag, st, t) == IF flag THEN DictSet(tmo, st.trace_id, t) ELSE tmo

(***************************************************************************)
(* _print_bucket: sorted(bucket.values(), key=..., reverse=True)           *)
(***************************************************************************)
\* a variant that leaves the start_time out of the key
SortKeyDurationOnly(record) == OrZero(record.duration)

\* key=lambda record: (record.start_time or 0) + (record.duration or 0)
SortKey(record) == OrZero(record.start_time) + OrZero(record.duration)

Reverse(s) == [i \in DOMAIN s |-> s[Len(s) + 1 - i]]

\* a stable ascending sort: each element goes after the elements not greater than it
InsertAsc(s, r) ==
    LET p == Cardinality({i \in DOMAIN s : SortKey(s[i]) <= SortKey(r)})
    IN SubSeq(s, 1, p) \o <<r>> \o SubSeq(s, p + 1, Len(s))

RECURSIVE SortAsc(_)
SortAsc(s) == IF s = <<>> THEN <<>> ELSE InsertAsc(SortAsc(SubSeq(s, 1, Len(s) - 1)), s[Len(s)])

\* a variant that sorts ascending and reverses the result: ties come out reversed
sorted_reverse_unstable(s) == Reverse(SortAsc(s))

\* reverse=True keeps the stability: the list is reversed, sorted and reversed again
sorted_reverse(s) == Reverse(SortAsc(Reverse(s)))

sorted_actions(bucket) == sorted_reverse(DictValues(bucket))

\* the duration shown in a row: the event's duration, or the time since the start
\* (`time.time() - action.start_time`), or 0.0 without a start_time
display_duration(action, now) ==
    IF action.duration # None THEN action.duration[1]
    ELSE IF action.start_time # None THEN now - action.start_time[1]
    ELSE 0

\* a row of the table: the action and the duration shown for it
table_rows(actions, now) ==
    [i \in DOMAIN actions |-> [action |-> actions[i], duration |-> display_duration(actions[i], now)]]

\* one table per non-empty bucket (`if len(bucket) > 0`)
print_bucket(label, bucket, now) ==
    IF Len(bucket) > 0
    THEN <<[label |-> label, rows |-> table_rows(sorted_actions(bucket), now)]>>
    ELSE <<>>

NoticeAll == "No anomalies found in trace log."
NoticeDefault == "No running or cancelled actions found in trace log (pass --all to see errors and timeouts)."
UnknownEvent == "Unknown event type"

\* a variant that looks at the two default buckets only
no_traces_default_only(run, can, err, tmo) == Len(run) + Len(can) = 0

\* `len(running) + len(canceled) + len(error) + len(timeout) == 0`
no_traces(run, can, err, tmo) == Len(run) + Len(can) + Len(err) + Len(tmo) = 0

notice_text(flag) == IF flag THEN NoticeAll ELSE NoticeDefault

(***************************************************************************)
(* _read_traces: the --filter option.  A text is a sequence of letters.    *)
(***************************************************************************)
Messages == {<<"a", "B">>, <<"b">>}
Filters == {None, Some(<<>>), Some(<<"A", "b">>)}

\* str.lower(), letter by letter
lower_char(c) == IF c = "A" THEN "a" ELSE IF c = "B" THEN "b" ELSE c
lower(text) == [i \in 1..Len(text) |-> lower_char(text[i])]

\* `sub in text` for two strings
contains(sub, text) ==
    \E i \in 0..(Len(text) - Len(sub)) : SubSeq(text, i + 1, i + Len(sub)) = sub

\* `if filter:`: None and the empty string are falsy
filter_given(f) == f # None /\ f[1] # <<>>

\* a variant that compares the texts as they are
keeps_case_sensitive(f, record) == contains(f[1], record.message)

\* `filter = filter.lower()` and `filter in trace.message.lower()`
keeps(f, record) == contains(lower(f[1]), lower(record.message))

\* _read_traces(trace_file, None, filter): no level is given, so only the message
\* filter applies
read_traces(file, f) ==
    IF filter_given(f) THEN SelectSeq(file, LAMBDA record : keeps(f, record)) ELSE file

\* the records of a trace file: the fields the correlator reads, and the message
RawRecords ==
    {[action |-> TRUE, event |-> ev, trace_id |-> id, start_time |-> None,
      duration |-> None, message |-> m] :
         ev \in KnownEvents \cup {"other"}, id \in TraceIds, m \in Messages}
    \cup {[action |-> FALSE, event |-> "", trace_id |-> 0, start_time |-> None,
           duration |-> None, message |-> m] : m \in Messages}
TraceFiles == UNION {[1..k -> RawRecords] : k \in 0..MaxRaw}

\* the k-th record the loop takes, as the correlator sees it
AsTrace(record, k) ==
    [action |-> record.action, event |-> record.event, trace_id |-> record.trace_id,
     start_time |-> record.start_time, duration |-> record.duration, idx |-> k]

(***************************************************************************)
(* anomolies_command: one action per kind of record met by the loop, and   *)
(* the report after the loop.                                              *)
(***************************************************************************)
Fetch(t) ==
    /\ pc = "loop"
    /\ n < MaxEvents
    /\ n' = n + 1
    /\ trace' = Some(t)
    /\ UNCHANGED <<genVars, readVars>>

\* a variant that swallows the missing start record and goes on
RaiseSwallowed ==
    /\ pc' = "loop"
    /\ UNCHANGED <<running_actions, canceled_actions, error_actions, timeout_actions,
                   stdout, tables>>

\* action_completed: `raise RuntimeError(...)`: the command ends there
Raise ==
    /\ pc' = "raised"
    /\ UNCHANGED <<running_actions, canceled_actions, error_actions, timeout_actions,
                   stdout, tables>>

Note(id, ev) ==
    /\ last' = [last EXCEPT ![id] = ev]
    /\ reentered' = IF ev = "enter" /\ last[id] \in TerminalEvents
                    THEN reentered \cup {id} ELSE reentered
    /\ enters' = IF enters # <<>> /\ ev = "enter"
                 THEN [enters EXCEPT ![id] = IF last[id] = "enter" THEN @ + 1 ELSE 1]
                 ELSE enters

EnterFrom(times) ==
    \E id \in TraceIds, st \in times :
        LET t == ActionTraceRecord(n + 1, "enter", id, st, None) IN
        /\ Fetch(t)
        /\ running_actions' = action_started(running_actions, t)
        /\ Note(id, "enter")
        /\ UNCHANGED <<all, canceled_actions, error_actions, timeout_actions,
                       start_trace, pc, stdout, tables>>

\* `case "enter":`
Enter == EnterFrom(StartTimes)

Exit ==
    \E id \in TraceIds, du \in Durations :
        LET t == ActionTraceRecord(n + 1, "exit", id, None, du)
            found == running_get(running_actions, t) IN
        /\ Fetch(t)
        /\ start_trace' = found
        /\ Note(id, "exit")
        /\ IF start_found(found)
           THEN /\ running_actions' = action_completed(running_actions, t)
                /\ UNCHANGED <<canceled_actions, error_actions, timeout_actions,
                               pc, stdout, tables>>
           ELSE Raise
        /\ UNCHANGED all

Cancel ==
    \E id \in TraceIds, du \in Durations :
        LET t == ActionTraceRecord(n + 1, "cancel", id, None, du)
            found == running_get(running_actions, t) IN
        /\ Fetch(t)
        /\ start_trace' = found
        /\ Note(id, "cancel")
        /\ IF start_found(found)
           THEN /\ running_actions' = action_completed(running_actions, t)
                /\ canceled_actions' =
                       action_canceled(canceled_actions, found[1], copy_start_time(t, found[1]))
                /\ UNCHANGED <<error_actions, timeout_actions, pc, stdout, tables>>
           ELSE Raise
        /\ UNCHANGED all

Error ==
    \E id \in TraceIds, du \in Durations :
        LET t == ActionTraceRecord(n + 1, "error", id, None, du)
            found == running_get(running_actions, t) IN
        /\ Fetch(t)
        /\ start_trace' = found
        /\ Note(id, "error")
        /\ IF start_found(found)
           THEN /\ running_actions' = action_completed(running_actions, t)
                /\ error_actions' =
                       action_failed(error_actions, all, found[1], copy_start_time(t, found[1]))
                /\ UNCHANGED <<canceled_actions, timeout_actions, pc, stdout, tables>>
           ELSE Raise
        /\ UNCHANGED all

Timeout ==
    \E id \in TraceIds, du \in Durations :
        LET t == ActionTraceRecord(n + 1, "timeout", id, None, du)
            found == running_get(running_actions, t) IN
        /\ Fetch(t)
        /\ start_trace' = found
        /\ Note(id, "timeout")
        /\ IF start_found(found)
           THEN /\ running_actions' = action_completed(running_actions, t)
                /\ timeout_actions' =
                       action_timeout(timeout_actions, all, found[1], copy_start_time(t, found[1]))
                /\ UNCHANGED <<canceled_actions, error_actions, pc, stdout, tables>>
           ELSE Raise
        /\ UNCHANGED all

\* a variant that takes any other tag for the end of the action
UnknownRaises ==
    \E id \in TraceIds :
        LET t == ActionTraceRecord(n + 1, "other", id, None, None) IN
        /\ Fetch(t)
        /\ IF DictHas(running_actions, id)
           THEN /\ stdout' = Append(stdout, UnknownEvent)
                /\ UNCHANGED <<running_actions, canceled_actions, error_actions,
                               timeout_actions, pc, tables>>
           ELSE Raise
        /\ UNCHANGED <<all, start_trace, last, reentered, enters>>

\* `case _:` an action record with another event tag
Unknown ==
    \E id \in TraceIds :
        LET t == ActionTraceRecord(n + 1, "other", id, None, None) IN
        /\ Fetch(t)
        /\ stdout' = Append(stdout, UnknownEvent)
        /\ UNCHANGED <<all, running_actions, canceled_actions, error_actions,
                       timeout_actions, start_trace, pc, tables, last, reentered, enters>>

\* a record that is not an ActionTraceRecord
NotAction ==
    /\ Fetch(TraceRecord(n + 1))
    /\ UNCHANGED <<all, running_actions, canceled_actions, error_actions,
                   timeout_actions, start_trace, pc, stdout, tables, last, reentered, enters>>

\* the stream is exhausted: the notice, or the tables, rendered at a time read from
\* `readings`
ReportAt(readings) ==
    /\ pc = "loop"
    /\ pc' = "done"
    /\ IF no_traces(running_actions, canceled_actions, error_actions, timeout_actions)
       THEN /\ stdout' = stdout \o <<"TRACE", notice_text(all)>>
            /\ UNCHANGED tables
       ELSE \E now \in readings :
            /\ tables' = print_bucket("Running Actions", running_actions, now)
                         \o print_bucket("Cancelled Actions", canceled_actions, now)
                         \o print_bucket("Error Actions", error_actions, now)
                         \o print_bucket("Timeout Actions", timeout_actions, now)
            /\ stdout' = stdout \o <<"TRACE", "tables">>
    /\ UNCHANGED <<all, running_actions, canceled_actions, error_actions,
                   timeout_actions, start_trace, trace, n, last, reentered, enters>>
    /\ UNCHANGED <<genVars, readVars>>

\* the report of the runs that do not look at the durations shown: one reading
Report == ReportAt({MaxTime + 1})

(***************************************************************************)
(* task_generate                                                           *)
(***************************************************************************)
\* tool_choice: a literal ("auto", "none", "any") or a ToolFunction
Literal(name) == [kind |-> "literal", name |-> name]
ToolFunction(name) == [kind |-> "ToolFunction", name |-> name]
Auto == Literal("auto")
ToolChoices == {Auto, Literal("none"), ToolFunction("f")}
Failures == {"error", "cancelled"}

\* an entry of the call history
Entry(op, tc, ep, input, calls, comp, err) ==
    [op |-> op, tc |-> tc, ep |-> ep, input |-> input, calls |-> calls,
     completed |-> comp, err |-> err]

\* the assistant message of a response that requests `calls` tool calls
AssistantMessage(calls) == [role |-> "assistant", tool_calls |-> calls]
ToolMessage == [role |-> "tool", tool_calls |-> 0]
UserMessage == [role |-> "user", tool_calls |-> 0]
ToolMessages(m) == [i \in 1..m |-> ToolMessage]

\* a variant that sets the epoch nowhere
epoch_set_skipped(ctx, e) == ctx

\* `epoch.set(state.epoch)`
epoch_set(ctx, e) == e

\* a variant that replaces the conversation by the new message
append_message_replacing(msgs, message) == <<message>>

\* `state.messages.append(message)`
append_message(msgs, message) == Append(msgs, message)

\* a variant that puts the tool messages in front
extend_messages_in_front(msgs, new) == new \o msgs

\* `state.messages.extend(messages)`
extend_messages(msgs, new) == msgs \o new

\* a variant that does not look at state.completed after the generation
done_after_generate_never(comp) == FALSE

\* `if state.completed: return state`
done_after_generate(comp) == comp

\* a variant that resolves tool calls in every mode
resolve_tool_calls_any_mode(mode, message) == message.tool_calls > 0

\* a variant that resolves tool calls in "single" mode only
resolve_tool_calls_single_only(mode, message) == mode = "single" /\ message.tool_calls > 0

\* `if tool_calls != "none" and message.tool_calls:`
resolve_tool_calls(mode, message) == mode # "none" /\ message.tool_calls > 0

\* a variant that forgets the "single" mode
done_after_tools_always(comp, mode) == TRUE

\* a variant that returns after the tools only when the state is completed
done_after_tools_completed_only(comp, mode) == comp

\* `if state.completed or tool_calls == "single":`
done_after_tools(comp, mode) == comp \/ mode = "single"

\* a variant that keeps forcing the tool
next_tool_choice_kept(tc) == tc

\* `if isinstance(tool_choice, ToolFunction): tool_choice = "auto"`
next_tool_choice(tc) == IF tc.kind = "ToolFunction" THEN Auto ELSE tc

\* a variant that catches the failure and starts the loop again
propagate_retry(err) == [gpc |-> "top", raised |-> ""]

\* no try/except around the awaits: the failure leaves task_generate
propagate(err) == [gpc |-> "failed", raised |-> err]

\* `tool_choice = state.tool_choice`
Begin ==
    /\ gpc = "start"
    /\ tool_choice' = state_tool_choice
    /\ gpc' = "top"
    /\ UNCHANGED <<tool_calls, state_tool_choice, state_epoch, epoch, messages, completed,
                   state_output, raised, log>>
    /\ UNCHANGED <<traceVars, readVars>>

\* the top of the loop: epoch.set(state.epoch), then model.generate is called
CallGenerate ==
    /\ gpc = "top"
    /\ Len(SelectSeq(log, LAMBDA e : e.op = "generate")) < MaxGenerations
    /\ epoch' = epoch_set(epoch, state_epoch)
    /\ log' = log \o <<Entry("epoch.set", tool_choice, epoch', <<>>, 0, completed, ""),
                       Entry("generate", tool_choice, epoch', messages, 0, completed, "")>>
    /\ gpc' = "generating"
    /\ UNCHANGED <<tool_calls, tool_choice, state_tool_choice, state_epoch, messages,
                   completed, state_output, raised>>
    /\ UNCHANGED <<traceVars, readVars>>

\* model.generate returns: the message is appended, then the loop returns or
\* calls execute_tools
GenerateReturns ==
    \E calls \in 0..MaxToolCalls, comp \in BOOLEAN :
        LET message == AssistantMessage(calls)
            ok == Entry("generate.ok", tool_choice, epoch, <<message>>, calls, comp, "") IN
        /\ gpc = "generating"
        /\ state_output' = "model"
        /\ messages' = append_message(messages, message)
        /\ completed' = comp
        /\ IF done_after_generate(comp)
           THEN /\ gpc' = "returned"
                /\ log' = log \o <<ok, Entry("return", tool_choice, epoch, messages', 0, comp, "")>>
           ELSE IF resolve_tool_calls(tool_calls, message)
           THEN /\ gpc' = "executing"
                /\ log' = log \o <<ok, Entry("execute_tools", tool_choice, epoch, messages', 0, comp, "")>>
           ELSE /\ gpc' = "returned"
                /\ log' = log \o <<ok, Entry("return", tool_choice, epoch, messages', 0, comp, "")>>
        /\ UNCHANGED <<tool_calls, tool_choice, state_tool_choice, state_epoch, epoch, raised>>
        /\ UNCHANGED <<traceVars, readVars>>

\* model.generate raises or is cancelled
GenerateFails ==
    \E err \in Failures :
        /\ gpc = "generating"
        /\ gpc' = propagate(err).gpc
        /\ raised' = propagate(err).raised
        /\ log' = Append(log, Entry("generate.fail", tool_choice, epoch, <<>>, 0, completed, err))
        /\ UNCHANGED <<tool_calls, tool_choice, state_tool_choice, state_epoch, epoch,
                       messages, completed, state_output>>
        /\ UNCHANGED <<traceVars, readVars>>

\* execute_tools returns: the messages are appended, then the loop returns or goes on
ToolsReturn ==
    \E m \in 1..MaxToolMessages, output \in {"none", "tools"}, comp \in BOOLEAN :
        LET new == ToolMessages(m)
            ok == Entry("execute_tools.ok", tool_choice, epoch, new, 0, comp, "") IN
        /\ gpc = "executing"
        /\ messages' = extend_messages(messages, new)
        /\ state_output' = IF output # "none" THEN output ELSE state_output
        /\ completed' = comp
        /\ IF done_after_tools(comp, tool_calls)
           THEN /\ gpc' = "returned"
                /\ log' = log \o <<ok, Entry("return", tool_choice, epoch, messages', 0, comp, "")>>
                /\ UNCHANGED tool_choice
           ELSE /\ gpc' = "top"
                /\ log' = Append(log, ok)
                /\ tool_choice' = next_tool_choice(tool_choice)
        /\ UNCHANGED <<tool_calls, state_tool_choice, state_epoch, epoch, raised>>
        /\ UNCHANGED <<traceVars, readVars>>

\* execute_tools raises or is cancelled
ToolsFail ==
    \E err \in Failures :
        /\ gpc = "executing"
        /\ gpc' = propagate(err).gpc
        /\ raised' = propagate(err).raised
        /\ log' = Append(log, Entry("execute_tools.fail", tool_choice, epoch, <<>>, 0, completed, err))
        /\ UNCHANGED <<tool_calls, tool_choice, state_tool_choice, state_epoch, epoch,
                       messages, completed, state_output>>
        /\ UNCHANGED <<traceVars, readVars>>

\* the runs that start after _read_traces: the stream is whatever it returned
ReadIdle ==
    /\ raw = <<>>
    /\ filter = None
    /\ traces = <<>>

TraceIdle ==
    /\ all = FALSE
    /\ running_actions = <<>>
    /\ canceled_actions = <<>>
    /\ error_actions = <<>>
    /\ timeout_actions = <<>>
    /\ start_trace = None
    /\ trace = None
    /\ n = 0
    /\ pc = "idle"
    /\ stdout = <<>>
    /\ tables = <<>>
    /\ last = [id \in TraceIds |-> "none"]
    /\ reentered = {}
    /\ enters = <<>>
    /\ ReadIdle

GenInit ==
    /\ tool_calls \in {"loop", "single", "none"}
    /\ state_tool_choice \in ToolChoices
    /\ tool_choice = Auto
    /\ state_epoch \in 1..MaxEpoch
    /\ epoch \in 0..MaxEpoch
    /\ messages = <<UserMessage>>
    /\ completed \in BOOLEAN
    /\ state_output = "none"
    /\ gpc = "start"
    /\ raised = ""
    /\ log = <<>>
    /\ TraceIdle

GenNext ==
    \/ Begin
    \/ CallGenerate
    \/ GenerateReturns
    \/ GenerateFails
    \/ ToolsReturn
    \/ ToolsFail

GenSpec == GenInit /\ [][GenNext]_vars

\* the awaited calls end: each answers or fails, and the code between them runs on
GenFairSpec == GenInit /\ [][GenNext]_vars /\ WF_vars(GenNext)

GenIdle ==
    /\ tool_calls = "none"
    /\ tool_choice = Auto
    /\ state_tool_choice = Auto
    /\ state_epoch = 1
    /\ epoch = 0
    /\ messages = <<>>
    /\ completed = FALSE
    /\ state_output = "none"
    /\ gpc = "idle"
    /\ raised = ""
    /\ log = <<>>

Init ==
    /\ all \in BOOLEAN
    /\ running_actions = <<>>
    /\ canceled_actions = <<>>
    /\ error_actions = <<>>
    /\ timeout_actions = <<>>
    /\ start_trace = None
    /\ trace = None
    /\ n = 0
    /\ pc = "loop"
    /\ stdout = <<>>
    /\ tables = <<>>
    /\ last = [id \in TraceIds |-> "none"]
    /\ reentered = {}
    /\ enters = <<>>
    /\ ReadIdle
    /\ GenIdle

Next ==
    \/ Enter
    \/ Exit
    \/ Cancel
    \/ Error
    \/ Timeout
    \/ Unknown
    \/ NotAction
    \/ Report

Spec == Init /\ [][Next]_vars

\* the same runs, with the enter events of each trace_id counted
CountInit ==
    /\ all \in BOOLEAN
    /\ running_actions = <<>>
    /\ canceled_actions = <<>>
    /\ error_actions = <<>>
    /\ timeout_actions = <<>>
    /\ start_trace = None
    /\ trace = None
    /\ n = 0
    /\ pc = "loop"
    /\ stdout = <<>>
    /\ tables = <<>>
    /\ last = [id \in TraceIds |-> "none"]
    /\ reentered = {}
    /\ enters = [id \in TraceIds |-> 0]
    /\ ReadIdle
    /\ GenIdle

CountSpec == CountInit /\ [][Next]_vars

(***************************************************************************)
(* anomolies_command from its first line: _read_traces, then the loop over *)
(* the list it returned, then the report.                                  *)
(***************************************************************************)
\* `trace_file_path, traces = _read_traces(trace_file, None, filter)`
ReadTraces ==
    /\ pc = "read"
    /\ pc' = "loop"
    /\ traces' = read_traces(raw, filter)
    /\ UNCHANGED <<all, running_actions, canceled_actions, error_actions, timeout_actions,
                   start_trace, trace, n, stdout, tables, last, reentered, enters>>
    /\ UNCHANGED <<raw, filter>>
    /\ UNCHANGED genVars

\* `for trace in traces:` the record taken is the next one of the list
FromTraces == trace'[1] = AsTrace(traces[n + 1], n + 1)
ReadEnter == n < Len(traces) /\ Enter /\ FromTraces
ReadExit == n < Len(traces) /\ Exit /\ FromTraces
ReadCancel == n < Len(traces) /\ Cancel /\ FromTraces
ReadError == n < Len(traces) /\ Error /\ FromTraces
ReadTimeout == n < Len(traces) /\ Timeout /\ FromTraces
ReadUnknown == n < Len(traces) /\ Unknown /\ FromTraces
ReadNotAction == n < Len(traces) /\ NotAction /\ FromTraces
\* the loop ends when the list is exhausted
ReadReport == n = Len(traces) /\ Report

FilterInit ==
    /\ all \in BOOLEAN
    /\ running_actions = <<>>
    /\ canceled_actions = <<>>
    /\ error_actions = <<>>
    /\ timeout_actions = <<>>
    /\ start_trace = None
    /\ trace = None
    /\ n = 0
    /\ pc = "read"
    /\ stdout = <<>>
    /\ tables = <<>>
    /\ last = [id \in TraceIds |-> "none"]
    /\ reentered = {}
    /\ enters = <<>>
    /\ raw \in TraceFiles
    /\ filter \in Filters
    /\ traces = <<>>
    /\ GenIdle

FilterNext ==
    \/ ReadTraces
    \/ ReadEnter
    \/ ReadExit
    \/ ReadCancel
    \/ ReadError
    \/ ReadTimeout
    \/ ReadUnknown
    \/ ReadNotAction
    \/ ReadReport

FilterSpec == FilterInit /\ [][FilterNext]_vars

(***************************************************************************)
(* Properties of the correlator                                            *)
(***************************************************************************)
BucketsOf(id) ==
    {b \in {"running", "cancelled", "error", "timeout"} :
        \/ b = "running" /\ DictHas(running_actions, id)
        \/ b = "cancelled" /\ DictHas(canceled_actions, id)
        \/ b = "error" /\ DictHas(error_actions, id)
        \/ b = "timeout" /\ DictHas(timeout_actions, id)}

\* the bucket a terminal event leaves its trace_id in
OutcomeOf(ev) ==
    CASE ev = "exit" -> {}
      [] ev = "cancel" -> {"cancelled"}
      [] ev = "error" -> IF all THEN {"error"} ELSE {}
      [] ev = "timeout" -> IF all THEN {"timeout"} ELSE {}

\* C1 as stated: no trace_id is ever a key of more than one of running, cancelled,
\* error, timeout, also when it is entered again after its terminal event.
C1_OneBucketAlways ==
    pc # "raised" => \A id \in TraceIds : Cardinality(BucketsOf(id)) <= 1

\* C1 amended: while no terminal event lacks its enter, a trace_id that was not entered
\* again after a terminal event is a key of at most one bucket; once its terminal event
\* is processed it is out of running and in exactly the bucket of that event (none for
\* exit, and none for error and timeout without --all).
C1_OneBucketUnlessReentered ==
    pc # "raised" =>
        \A id \in TraceIds \ reentered :
            /\ Cardinality(BucketsOf(id)) <= 1
            /\ last[id] \in TerminalEvents => BucketsOf(id) = OutcomeOf(last[id])
            /\ last[id] = "enter" => BucketsOf(id) = {"running"}

C1_Witness ==
    /\ pc = "done"
    /\ \E id \in TraceIds \ reentered : last[id] = "cancel" /\ BucketsOf(id) = {"cancelled"}
    /\ \E id \in TraceIds \ reentered : last[id] = "exit"

IsNotice(line) == line \in {NoticeAll, NoticeDefault}
NoticePrinted == \E i \in DOMAIN stdout : IsNotice(stdout[i])

\* C2: a terminal event whose trace_id is not in running raises and ends the command:
\* the buckets are left as they were, nothing runs after the raise, and neither a
\* table nor a notice is printed; with and without --all.
C2_MissingStartRaises ==
    [][ /\ pc # "raised"
        /\ ( /\ n' = n + 1
             /\ trace'[1].action
             /\ trace'[1].event \in TerminalEvents
             /\ ~DictHas(running_actions, trace'[1].trace_id) )
           => /\ pc' = "raised"
              /\ tables' = <<>>
              /\ \A i \in DOMAIN stdout' : ~IsNotice(stdout'[i])
              /\ <<running_actions', canceled_actions', error_actions', timeout_actions'>>
                   = <<running_actions, canceled_actions, error_actions, timeout_actions>>
      ]_vars

C2_Witness ==
    /\ pc = "raised"
    /\ ~all
    /\ trace[1].event = "error"
    /\ running_actions # <<>>

\* C3: without --all the error and timeout buckets are empty in every state; with
\* --all an error (timeout) event with a matching enter is in the error (timeout)
\* bucket under its trace_id right after it is processed.
C3_AllGate ==
    /\ ~all => error_actions = <<>> /\ timeout_actions = <<>>
    /\ (all /\ pc # "raised" /\ trace # None /\ trace[1].event = "error") =>
           /\ DictHas(error_actions, trace[1].trace_id)
           /\ DictGet(error_actions, trace[1].trace_id) =
                  copy_start_time(trace[1], start_trace[1])
    /\ (all /\ pc # "raised" /\ trace # None /\ trace[1].event = "timeout") =>
           /\ DictHas(timeout_actions, trace[1].trace_id)
           /\ DictGet(timeout_actions, trace[1].trace_id) =
                  copy_start_time(trace[1], start_trace[1])

C3_Witness ==
    /\ all
    /\ pc = "loop"
    /\ trace # None
    /\ trace[1].event = "timeout"
    /\ DictHas(timeout_actions, trace[1].trace_id)
    /\ error_actions # <<>>

AllBuckets == {running_actions, canceled_actions, error_actions, timeout_actions}

AllEmpty ==
    /\ running_actions = <<>>
    /\ canceled_actions = <<>>
    /\ error_actions = <<>>
    /\ timeout_actions = <<>>

\* C5: after correlation the notice is printed, and no table, exactly when the four
\* buckets are empty; its text depends on --all; a trace whose only anomalies are
\* error or timeout events gets the notice without --all and tables with --all.
C5_NoticeIffEmpty ==
    pc = "done" =>
        /\ NoticePrinted <=> AllEmpty
        /\ NoticePrinted => /\ tables = <<>>
                            /\ stdout[Len(stdout)] = IF all THEN NoticeAll ELSE NoticeDefault
        /\ ~NoticePrinted => tables # <<>>
        /\ ( /\ running_actions = <<>>
             /\ canceled_actions = <<>>
             /\ \E id \in TraceIds : last[id] \in {"error", "timeout"} )
           => (NoticePrinted <=> ~all)

C5_Witness ==
    /\ pc = "done"
    /\ ~all
    /\ \E id \in TraceIds : last[id] = "error"
    /\ stdout[Len(stdout)] = NoticeDefault

(***************************************************************************)
(* Properties of task_generate, stated on the call history                 *)
(***************************************************************************)
At(op) == {i \in DOMAIN log : log[i].op = op}
Count(op) == Cardinality(At(op))
\* the index of the k-th entry `op` (k within Count(op))
Nth(op, k) == CHOOSE i \in At(op) : Cardinality({j \in At(op) : j <= i}) = k
Failed == At("generate.fail") \cup At("execute_tools.fail")

\* C6: with tool_calls = "loop", a response that requests tool calls while the state
\* is not completed is followed by one tool execution, whose result messages are in
\* the conversation handed to the next generation call; when the first response
\* requests tool calls and the second leaves the state completed or requests none,
\* task_generate has returned after exactly 2 generation calls and 1 tool execution.
C6_LoopRunsToolsThenGenerates ==
    tool_calls = "loop" =>
        /\ \A i \in At("generate.ok") :
               (log[i].calls > 0 /\ ~log[i].completed) =>
                   /\ log[i + 1].op = "execute_tools"
                   /\ log[i + 1].input = Append(log[i - 1].input, AssistantMessage(log[i].calls))
                   /\ \A j \in At("generate") :
                          (j > i /\ ~\E k \in At("generate") : i < k /\ k < j) =>
                              /\ j = i + 4
                              /\ log[i + 2].op = "execute_tools.ok"
                              /\ log[j].input = log[i + 1].input \o log[i + 2].input
        /\ ( /\ Count("generate.ok") >= 2
             /\ log[Nth("generate.ok", 1)].calls > 0
             /\ LET second == log[Nth("generate.ok", 2)]
                IN second.completed \/ second.calls = 0 )
           => /\ gpc = "returned"
              /\ Count("generate") = 2
              /\ Count("execute_tools") = 1
              /\ Count("execute_tools.ok") = 1
              /\ Len(messages) = 3 + Len(log[Nth("execute_tools.ok", 1)].input)

C6_Witness ==
    /\ tool_calls = "loop"
    /\ gpc = "returned"
    /\ Count("generate") = 2
    /\ Count("execute_tools") = 1
    /\ log[Nth("generate.ok", 2)].completed

\* C7 as stated: with tool_calls = "single", when the first response contains tool
\* calls, task_generate returns after exactly one tool execution and one generation.
C7_SingleAlwaysRunsTools ==
    (tool_calls = "single" /\ gpc = "returned" /\ log[Nth("generate.ok", 1)].calls > 0) =>
        /\ Count("execute_tools") = 1
        /\ Count("generate") = 1

\* C7 amended: with tool_calls = "single", when the first response contains tool calls
\* and the state is not completed right after that response is appended, the tools are
\* executed exactly once and task_generate returns right after that execution, without
\* a second generation call, whether or not the state is completed after the tools ran;
\* when the state is completed right after the response, it returns with no tool
\* execution.
C7_SingleRunsToolsUnlessCompleted ==
    (tool_calls = "single" /\ Count("generate.ok") >= 1 /\ log[Nth("generate.ok", 1)].calls > 0) =>
        LET first == Nth("generate.ok", 1) IN
        /\ Count("generate") = 1
        /\ ~log[first].completed =>
               /\ Count("execute_tools") = 1
               /\ log[first + 1].op = "execute_tools"
               /\ Count("execute_tools.ok") = 1 =>
                      /\ gpc = "returned"
                      /\ log[first + 2].op = "execute_tools.ok"
                      /\ log[first + 3].op = "return"
                      /\ Len(log) = first + 3
        /\ log[first].completed =>
               /\ Count("execute_tools") = 0
               /\ gpc = "returned"

C7_Witness ==
    /\ tool_calls = "single"
    /\ gpc = "returned"
    /\ Count("execute_tools.ok") = 1
    /\ ~completed

\* C8: a forced tool_choice (a ToolFunction) is passed to the first generation call and
\* "auto" to every later one; any other tool_choice is passed unchanged to every call.
C8_ForcedToolChoiceOnce ==
    \A i \in At("generate") :
        log[i].tc = IF state_tool_choice.kind = "ToolFunction" /\ i # Nth("generate", 1)
                    THEN Auto
                    ELSE state_tool_choice

C8_Witness ==
    /\ state_tool_choice.kind = "ToolFunction"
    /\ Count("generate") >= 2
    /\ log[Nth("generate", 2)].tc = Auto

\* C9: every call of model.generate comes right after epoch.set(state.epoch), with no
\* call in between, and the epoch context value at the call is the task's epoch.
C9_EpochSetBeforeGenerate ==
    \A i \in At("generate") :
        /\ i > 1
        /\ log[i - 1].op = "epoch.set"
        /\ log[i - 1].ep = state_epoch
        /\ log[i].ep = state_epoch

C9_Witness ==
    /\ Count("generate") >= 2
    /\ epoch = state_epoch

\* C10: once a generation call or a tool execution fails or is cancelled, no further
\* call is made, the same failure reaches the caller, and task_generate does not
\* return a state.
C10_FailurePropagates ==
    [][ /\ gpc # "failed"
        /\ Failed' # {} =>
               /\ gpc' = "failed"
               /\ log'[Len(log')].op \in {"generate.fail", "execute_tools.fail"}
               /\ raised' = log'[Len(log')].err
               /\ Cardinality(Failed') = 1
               /\ At("return")' = {}
        /\ gpc' = "returned" => raised' = "" /\ Failed' = {}
      ]_vars

C10_Witness ==
    /\ gpc = "failed"
    /\ raised = "cancelled"
    /\ Count("execute_tools.fail") = 1
    /\ Count("generate") = 2

\* the record just fetched is a lifecycle-ending event (exit, cancel, error, timeout)
FetchedTerminal == n' = n + 1 /\ trace'[1].action /\ trace'[1].event \in TerminalEvents

\* the unmatched enter events of a trace_id
Unmatched(id) == IF last[id] = "enter" THEN enters[id] ELSE 0

\* C11 as stated: a terminal event is accepted only when exactly one unmatched enter with
\* its trace_id precedes it; with none, or with two (enter X, enter X, exit X), the
\* correlator reports an error.
C11_ExactlyOneUnmatchedEnter ==
    [][ FetchedTerminal => (pc' = "raised" <=> Unmatched(trace'[1].trace_id) # 1) ]_vars

\* C11 amended: a terminal event (exit, cancel, error, timeout) is a hard error exactly
\* when no unmatched enter with its trace_id precedes it; with one or more unmatched
\* enters it is accepted without error, it is matched with the latest of them (a repeated
\* enter overwrites the earlier record) and the trace_id leaves running.
C11_AtLeastOneUnmatchedEnter ==
    [][ FetchedTerminal =>
            LET id == trace'[1].trace_id IN
            /\ pc' = "raised" <=> Unmatched(id) = 0
            /\ Unmatched(id) >= 1 =>
                   /\ ~DictHas(running_actions', id)
                   /\ start_trace' = Some(DictGet(running_actions, id))
                   /\ start_trace'[1].event = "enter"
                   /\ start_trace'[1].trace_id = id
      ]_vars

C11_Witness ==
    /\ pc = "loop"
    /\ trace # None
    /\ trace[1].event = "exit"
    /\ last[trace[1].trace_id] = "exit"
    /\ enters[trace[1].trace_id] = 2
    /\ start_trace[1].idx = 2

(***************************************************************************)
(* The rendering of the running bucket alone: streams of enter events with *)
(* a wider range of start times, then the report.                          *)
(***************************************************************************)
EnterWide == EnterFrom(WideStartTimes)

ReportWide == ReportAt(Clock)

SortNext ==
    \/ EnterWide
    \/ ReportWide

SortSpec == Init /\ [][SortNext]_vars

\* the rows of the table of the running bucket, once rendered
RunningRows == IF pc = "done" /\ running_actions # <<>> THEN tables[1].rows ELSE <<>>

\* start_time + (current_time - start_time) for a row that lacks a duration
EffectiveFinish(row) == OrZero(row.action.start_time) + row.duration

C13_CompletedAfterGenerateReturns ==
    \A i \in At("generate.ok") :
        log[i].completed =>
            /\ gpc = "returned"
            /\ Len(log) = i + 1
            /\ log[i + 1].op = "return"
            /\ log[i + 1].input = Append(log[i - 1].input, AssistantMessage(log[i].calls))
            /\ messages = log[i + 1].input
            /\ \A k \in At("execute_tools") : k < i

C13_Witness ==
    /\ tool_calls = "loop"
    /\ gpc = "returned"
    /\ Count("generate") = 2
    /\ log[Nth("generate.ok", 2)].completed
    /\ log[Nth("generate.ok", 2)].calls > 0

\* C14: with tool_calls = "none" there is one generation call at most and no tool
\* execution, and task_generate returns as soon as that generation has answered; in any
\* mode a response without tool calls ends the loop right after that generation, with
\* no tool execution for it.
C14_NoneOrNoCallsReturns ==
    /\ tool_calls = "none" =>
           /\ Count("generate") <= 1
           /\ Count("execute_tools") = 0
           /\ Count("generate.ok") = 1 =>
                  /\ gpc = "returned"
                  /\ Len(log) = 4
                  /\ log[4].op = "return"
    /\ \A i \in At("generate.ok") :
           log[i].calls = 0 =>
               /\ gpc = "returned"
               /\ Len(log) = i + 1
               /\ log[i + 1].op = "return"

C14_Witness ==
    /\ tool_calls = "none"
    /\ gpc = "returned"
    /\ log[Nth("generate.ok", 1)].calls > 0
    /\ ~completed

Buckets == <<running_actions, canceled_actions, error_actions, timeout_actions>>

\* C15: an action record with an event tag other than enter, exit, cancel, error,
\* timeout prints a warning, leaves the four mappings unchanged and raises nothing, also
\* when its trace_id is not running, and the loop goes on with the state it had; a
\* record that is not an action record changes nothing either.
C15_UnknownEventIgnored ==
    [][ n' = n + 1 =>
            /\ (trace'[1].action /\ trace'[1].event \notin KnownEvents) =>
                   /\ Buckets' = Buckets
                   /\ pc' = "loop"
                   /\ stdout' = Append(stdout, UnknownEvent)
                   /\ <<start_trace, last, reentered, enters, tables>>'
                          = <<start_trace, last, reentered, enters, tables>>
            /\ ~trace'[1].action =>
                   /\ Buckets' = Buckets
                   /\ pc' = "loop"
                   /\ stdout' = stdout
                   /\ <<start_trace, last, reentered, enters, tables>>'
                          = <<start_trace, last, reentered, enters, tables>>
      ]_vars

\* an unknown tag for a trace_id that is not running, and a record processed after it
C15_Witness ==
    /\ pc = "loop"
    /\ n >= 3
    /\ stdout = <<UnknownEvent>>
    /\ running_actions = <<>>
    /\ canceled_actions # <<>>
    /\ trace[1].event = "cancel"
    /\ trace[1].idx = n

\* the correlator as a function of the list it loops over: the four mappings after the
\* list, and whether the missing-start error was raised on the way
CorrelateStep(s, t) ==
    IF s.raised \/ ~t.action \/ t.event \notin KnownEvents THEN s
    ELSE IF t.event = "enter" THEN [s EXCEPT !.run = action_started(s.run, t)]
    ELSE LET found == running_get(s.run, t) IN
         IF ~start_found(found) THEN [s EXCEPT !.raised = TRUE]
         ELSE LET run == action_completed(s.run, t)
                  done == copy_start_time(t, found[1]) IN
              CASE t.event = "exit" -> [s EXCEPT !.run = run]
                [] t.event = "cancel" ->
                       [s EXCEPT !.run = run, !.can = action_canceled(s.can, found[1], done)]
                [] t.event = "error" ->
                       [s EXCEPT !.run = run,
                                 !.err = action_failed(s.err, all, found[1], done)]
                [] t.event = "timeout" ->
                       [s EXCEPT !.run = run,
                                 !.tmo = action_timeout(s.tmo, all, found[1], done)]

RECURSIVE Correlate(_, _)
Correlate(list, k) ==
    IF k = 0
    THEN [run |-> <<>>, can |-> <<>>, err |-> <<>>, tmo |-> <<>>, raised |-> FALSE]
    ELSE CorrelateStep(Correlate(list, k - 1), AsTrace(list[k], k))

\* the message contains the text, letters compared without regard to case
SameLetter(a, b) == a = b \/ {a, b} \in {{"a", "A"}, {"b", "B"}}
ContainsIgnoringCase(message, text) ==
    \E i \in 0..(Len(message) - Len(text)) :
        \A j \in 1..Len(text) : SameLetter(message[i + j], text[j])
Passing ==
    IF filter = None
    THEN raw
    ELSE SelectSeq(raw, LAMBDA record : ContainsIgnoringCase(record.message, filter[1]))

\* C16: the filter is applied before correlation: at every point of the loop the four
\* mappings and the error outcome are those of correlating the records taken so far from
\* the sub-sequence of the file whose messages contain the filter text without regard to
\* case, and the report comes when that sub-sequence is exhausted.
C16_FilterBeforeCorrelation ==
    pc # "read" =>
        LET state == Correlate(Passing, n) IN
        /\ n <= Len(Passing)
        /\ Buckets = <<state.run, state.can, state.err, state.tmo>>
        /\ (pc = "raised") = state.raised
        /\ pc = "done" => n = Len(Passing)

\* a terminal event passes the filter, its enter record does not: the missing-start
\* error is raised, although the whole file correlates without it
C16_Witness ==
    /\ pc = "raised"
    /\ filter_given(filter)
    /\ Len(raw) = 2
    /\ raw[1].event = "enter" /\ raw[2].event \in TerminalEvents
    /\ raw[1].trace_id = raw[2].trace_id
    /\ raw[1].message = <<"b">> /\ raw[2].message = <<"a", "B">>
    /\ ~Correlate(raw, Len(raw)).raised

EnterFetched(id) ==
    n' = n + 1 /\ trace'[1].action /\ trace'[1].event = "enter" /\ trace'[1].trace_id = id

\* C17: as long as nothing is raised, and whatever --all is, after every record the
\* running mapping holds a trace_id exactly when the last enter, exit, cancel, error or
\* timeout event of that trace_id is an enter, and the record it holds is that enter
\* record: the record just taken if it is an enter of the trace_id (a repeated enter
\* replaces the earlier one), else the record held before.
C17_RunningIsLastEnter ==
    [][ pc' # "raised" =>
            \A id \in TraceIds :
                /\ DictHas(running_actions', id) <=> last'[id] = "enter"
                /\ DictHas(running_actions', id) =>
                       IF EnterFetched(id)
                       THEN DictGet(running_actions', id) = trace'[1]
                       ELSE /\ DictHas(running_actions, id)
                            /\ DictGet(running_actions', id) = DictGet(running_actions, id)
      ]_vars

\* without --all: an error event has removed one trace_id, and a repeated enter has
\* replaced the record of another
C17_Witness ==
    /\ pc = "loop"
    /\ ~all
    /\ \E a, b \in TraceIds :
           /\ last[a] = "error" /\ ~DictHas(running_actions, a)
           /\ enters[b] = 2 /\ last[b] = "enter"
           /\ DictGet(running_actions, b).idx = 3

\* the terminal record taken by this step is inserted into the mapping of its event
Inserted(ev, id) ==
    /\ n' = n + 1
    /\ pc' # "raised"
    /\ trace'[1].action /\ trace'[1].event = ev /\ trace'[1].trace_id = id
    /\ ev = "cancel" \/ (ev \in {"error", "timeout"} /\ all)

TerminalBucket(ev) ==
    CASE ev = "cancel" -> canceled_actions
      [] ev = "error" -> error_actions
      [] ev = "timeout" -> timeout_actions

\* C18: no step removes a trace_id from the cancelled, error or timeout mapping.  A
\* step that inserts a terminal record stores it with the start_time of the enter
\* record it matched; every other step leaves the stored record as it is, also an enter
\* or a normal exit of the same trace_id.
C18_TerminalBucketsOnlyGrow ==
    [][ \A ev \in {"cancel", "error", "timeout"}, id \in TraceIds :
            \/ TerminalBucket(ev)' = TerminalBucket(ev) /\ ~Inserted(ev, id)
            \/ /\ DictHas(TerminalBucket(ev), id) => DictHas(TerminalBucket(ev)', id)
               /\ IF Inserted(ev, id)
                  THEN DictGet(TerminalBucket(ev)', id) =
                           [trace'[1] EXCEPT
                               !.start_time = DictGet(running_actions, id).start_time]
                  ELSE /\ DictHas(TerminalBucket(ev)', id) => DictHas(TerminalBucket(ev), id)
                       /\ DictHas(TerminalBucket(ev), id) =>
                              DictGet(TerminalBucket(ev)', id)
                                  = DictGet(TerminalBucket(ev), id)
      ]_vars

\* cancelled, entered again, exited normally: still in cancelled, with the start_time
\* of the first enter record
C18_Witness ==
    \E id \in TraceIds :
        /\ id \in reentered
        /\ last[id] = "exit"
        /\ pc = "loop"
        /\ DictHas(canceled_actions, id)
        /\ DictGet(canceled_actions, id).start_time = Some(1)
        /\ DictGet(canceled_actions, id).idx = 2
        /\ ~DictHas(running_actions, id)

IsPrefix(s, t) == Len(s) <= Len(t) /\ SubSeq(t, 1, Len(s)) = s

\* what the calls answered so far have produced, in call order
RECURSIVE Produced(_)
Produced(entries) ==
    IF entries = <<>> THEN <<>>
    ELSE LET e == entries[Len(entries)]
             before == Produced(SubSeq(entries, 1, Len(entries) - 1)) IN
         IF e.op \in {"generate.ok", "execute_tools.ok"} THEN before \o e.input ELSE before

\* the outcome a step records first ("" for a step that records none)
Outcome == IF Len(log') > Len(log) THEN log'[Len(log) + 1].op ELSE ""

\* C19: the conversation is append-only and in call order: every step keeps the messages
\* it found as a prefix, a generation that answers appends exactly its one assistant
\* message, a tool execution that answers appends its result messages after that
\* message, a failing generation appends nothing, a failing tool execution leaves the
\* assistant message of its iteration at the end of the conversation.
C19_ConversationAppendOnly ==
    [][ /\ IsPrefix(messages, messages')
        /\ messages' = <<UserMessage>> \o Produced(log')
        /\ Outcome = "generate.ok" =>
               /\ Len(messages') = Len(messages) + 1
               /\ messages'[Len(messages')] = log'[Len(log) + 1].input[1]
               /\ messages'[Len(messages')].role = "assistant"
        /\ Outcome = "execute_tools.ok" =>
               /\ messages' = messages \o log'[Len(log) + 1].input
               /\ messages[Len(messages)].role = "assistant"
               /\ \A i \in (Len(messages) + 1)..Len(messages') : messages'[i].role = "tool"
        /\ Outcome = "generate.fail" => messages' = messages /\ gpc' = "failed"
        /\ Outcome = "execute_tools.fail" =>
               /\ messages' = messages
               /\ gpc' = "failed"
               /\ messages[Len(messages)] = log[Nth("generate.ok", Count("generate.ok"))].input[1]
        /\ Outcome \notin {"generate.ok", "execute_tools.ok"} => messages' = messages
      ]_vars

\* the tool execution of the second iteration has failed: the conversation ends with
\* the second assistant message, after the first one and its tool results
C19_Witness ==
    /\ gpc = "failed"
    /\ log[Len(log)].op = "execute_tools.fail"
    /\ Count("generate.ok") = 2
    /\ Count("execute_tools.ok") = 1
    /\ Len(messages) = 4
    /\ <<messages[1].role, messages[2].role, messages[3].role, messages[4].role>>
           = <<"user", "assistant", "tool", "assistant">>

\* some call so far has ended the loop: a generation left the state completed or
\* requested no tool call, or a tool execution left the state completed
StopSeen ==
    \/ \E i \in At("generate.ok") : log[i].completed \/ log[i].calls = 0
    \/ \E i \in At("execute_tools.ok") : log[i].completed

Ended == gpc \in {"returned", "failed"}

C20_Rounds ==
    /\ gpc = "failed" <=> Failed # {}
    /\ tool_calls = "loop" =>
           /\ gpc = "returned" <=> StopSeen
           \* back at the top of the loop: every round so far was a generation that
           \* requested tool calls and a tool execution, neither leaving the state completed
           /\ gpc = "top" =>
                  /\ Count("generate") = Count("generate.ok")
                  /\ Count("execute_tools") = Count("generate")
                  /\ Count("execute_tools.ok") = Count("generate")
                  /\ \A k \in 1..Count("generate") :
                         /\ Nth("generate", k) < Nth("execute_tools", k)
                         /\ k < Count("generate") =>
                                Nth("execute_tools", k) < Nth("generate", k + 1)
                  \* nothing in the loop counts the rounds
                  /\ Count("generate") < MaxGenerations => ENABLED CallGenerate
    /\ tool_calls \in {"single", "none"} =>
           /\ Count("generate") <= 1
           /\ Count("execute_tools") <= 1
           /\ tool_calls = "none" => Count("execute_tools") = 0
           /\ gpc = "top" => Count("generate") = 0

\* C20: with "loop", task_generate has returned exactly when a generation has left the
\* state completed or requested no tool call, or a tool execution has left the state
\* completed; until then generation and tool execution alternate, round after round,
\* with nothing in the loop to stop them.  With "single" or "none" there is at most one
\* generation and one tool execution, and the call always ends: it returns, or a failing
\* call leaves it.
C20_LoopEndsOnlyOnStop ==
    /\ []C20_Rounds
    /\ (tool_calls \in {"single", "none"}) ~> Ended

\* "loop": as many rounds as the model allows, each a generation and a tool execution,
\* and the loop is at its top again, ready for the next round
C20_Witness ==
    /\ tool_calls = "loop"
    /\ gpc = "top"
    /\ Count("generate") = MaxGenerations
    /\ Count("execute_tools.ok") = MaxGenerations
    /\ ~StopSeen

====
